---------------------------- MODULE Spec2Model ----------------------------
(***************************************************************************)
(* The yt-dlp download service of main.py: the POST /api/download handler  *)
(* (URL validation, probe, fetch, artifact resolution, error mapping), the *)
(* GET /api/file/{filename} handler and the DELETE /api/cleanup handler,   *)
(* over the shared downloads directory.                                    *)
(*                                                                         *)
(* Strings are sequences of one-character strings, so that trimming,       *)
(* parsing, sanitising and concatenation are computed, not assumed.        *)
(*                                                                         *)
(* Scheduling: every handler is an `async def` that contains no `await`    *)
(* (subprocess.run and the pathlib calls block), and main.py serves the    *)
(* app with uvicorn.run(app, ...), one process with one event loop.  A     *)
(* handler therefore runs from its first line to its return before the     *)
(* loop starts the next one; requests that arrive meanwhile wait.  The     *)
(* variable `busy` is the event loop's current handler.                    *)
(***************************************************************************)
EXTENDS Integers, Sequences, FiniteSets, TLC

(***************************************************************************)
(* Bounds of the model.                                                    *)
(***************************************************************************)
MaxMtime == 2

\* Modification times, as far as their order goes.
Mtimes == 1..MaxMtime

\* The download requests: two, which is what a statement about any two
\* requests needs; no handler reads the number of a request.
Downloads == {1, 2}

(***************************************************************************)
(* Program constants.                                                      *)
(***************************************************************************)
TitleMax == 50

(***************************************************************************)
(* Strings.                                                                *)
(***************************************************************************)
Take(s, n) == IF Len(s) <= n THEN s ELSE SubSeq(s, 1, n)

Drop(s, n) == IF Len(s) <= n THEN <<>> ELSE SubSeq(s, n + 1, Len(s))

HasChar(s, c) == \E i \in 1..Len(s) : s[i] = c

\* `sub in s` of Python.
Contains(s, sub) ==
    \E i \in 0..(Len(s) - Len(sub)) : SubSeq(s, i + 1, i + Len(sub)) = sub

StartsWith(s, p) == Len(p) <= Len(s) /\ SubSeq(s, 1, Len(p)) = p

\* s.find(c) of Python, 0-based; -1 when absent.
Find(s, c) ==
    IF HasChar(s, c)
    THEN (CHOOSE i \in 1..Len(s) : s[i] = c /\ \A j \in 1..(i - 1) : s[j] # c) - 1
    ELSE -1

\* First position at or after `start` (0-based) of any character of cs;
\* Len(s) when there is none.
FindAnyFrom(s, cs, start) ==
    LET hits == {i \in (start + 1)..Len(s) : s[i] \in cs}
    IN  IF hits = {} THEN Len(s)
        ELSE (CHOOSE i \in hits : \A j \in hits : i <= j) - 1

Whitespace == {" "}

RECURSIVE LStrip(_)
LStrip(s) == IF s # <<>> /\ Head(s) \in Whitespace THEN LStrip(Tail(s)) ELSE s

RECURSIVE RStrip(_)
RStrip(s) ==
    IF s # <<>> /\ s[Len(s)] \in Whitespace
    THEN RStrip(SubSeq(s, 1, Len(s) - 1))
    ELSE s

\* str.strip()
Strip(s) == RStrip(LStrip(s))

LowerLetters == {"a", "b", "c", "d", "e", "f", "g", "h", "i", "j", "k", "l", "m",
                 "n", "o", "p", "q", "r", "s", "t", "u", "v", "w", "x", "y", "z"}
\* The upper-case letters the inputs use.
UpperLetters == {"H", "P", "S", "T"}
Digits == {"0", "1", "2", "3", "4", "5", "6", "7", "8", "9"}
Letters == LowerLetters \cup UpperLetters

LowerChar(c) ==
    CASE c = "H" -> "h"
      [] c = "P" -> "p"
      [] c = "S" -> "s"
      [] c = "T" -> "t"
      [] OTHER -> c

\* str.lower()
Lower(s) == [i \in 1..Len(s) |-> LowerChar(s[i])]

\* str.isalnum() on one character.
IsAlnum(c) == c \in Letters \cup Digits

(***************************************************************************)
(* urllib.parse.urlparse, as far as the handler reads its result: the      *)
(* scheme and the netloc, or the ValueError it raises.                     *)
(***************************************************************************)
SchemeChars == Letters \cup Digits \cup {"+", "-", "."}

\* The position of the ':' that ends a scheme, or -1 when the text before
\* the first ':' is not a scheme.
SchemeEnd(url) ==
    LET i == Find(url, ":")
    IN  IF i > 0 /\ url[1] \in Letters
             /\ \A k \in 1..i : url[k] \in SchemeChars
        THEN i
        ELSE -1

UrlScheme(url) ==
    LET u == LStrip(url)
    IN  IF SchemeEnd(u) > 0 THEN Lower(Take(u, SchemeEnd(u))) ELSE <<>>

\* What follows the scheme and its ':'.
UrlRest(url) ==
    LET u == LStrip(url)
    IN  IF SchemeEnd(u) > 0 THEN Drop(u, SchemeEnd(u) + 1) ELSE u

\* _splitnetloc: the text between '//' and the first of '/', '?', '#'.
UrlNetloc(url) ==
    LET r == UrlRest(url)
    IN  IF StartsWith(r, <<"/", "/">>)
        THEN SubSeq(r, 3, FindAnyFrom(r, {"/", "?", "#"}, 2))
        ELSE <<>>

\* urlparse raises ValueError("Invalid IPv6 URL") on an unbalanced bracket.
UrlParseRaises(url) ==
    LET n == UrlNetloc(url)
    IN  HasChar(n, "[") # HasChar(n, "]")

\* SplitResult.hostname: the netloc without userinfo and port (the text
\* after the last '@', up to the first ':').  The handler never reads it.
RECURSIVE AfterLast(_, _)
AfterLast(s, c) == IF HasChar(s, c) THEN AfterLast(Drop(s, Find(s, c) + 1), c) ELSE s

UrlHost(url) ==
    LET hostinfo == AfterLast(UrlNetloc(url), "@")
    IN  IF HasChar(hostinfo, ":") THEN Take(hostinfo, Find(hostinfo, ":"))
        ELSE hostinfo

(***************************************************************************)
(* download, lines 51-58: the URL checks.                                  *)
(***************************************************************************)
\* url = (req.url or "").strip()
TrimUrl(raw) == Strip(raw)

SchemeHttp == <<"h", "t", "t", "p">>
SchemeHttps == <<"h", "t", "t", "p", "s">>

\* The two `raise HTTPException(status_code=400, ...)` of lines 52-58.
UrlRejected(raw) ==
    LET url == TrimUrl(raw)
    IN  \/ url = <<>>
        \/ /\ ~UrlParseRaises(url)
           /\ \/ UrlScheme(url) \notin {SchemeHttp, SchemeHttps}
              \/ UrlNetloc(url) = <<>>

\* urlparse (line 56) raises outside the try block: an unhandled error.
UrlCrashes(raw) == TrimUrl(raw) # <<>> /\ UrlParseRaises(TrimUrl(raw))

(***************************************************************************)
(* download, lines 82-90: the expected file name.                          *)
(***************************************************************************)
DefaultTitle == <<"v", "i", "d", "e", "o">>

\* safe_title, lines 86-88.
SafeTitle(title) ==
    LET kept == SelectSeq(title, LAMBDA c : IsAlnum(c) \/ c \in {" ", "-", "_"})
        cut  == Take(Strip(kept), TitleMax)
    IN  IF cut = <<>> THEN DefaultTitle ELSE cut

ExtMp4 == <<".", "m", "p", "4">>
ExtMkv == <<".", "m", "k", "v">>

\* f"{safe_title}_{video_id}", the stem of line 89 and of the pattern of
\* line 123.
Stem(safe_title, video_id) == safe_title \o <<"_">> \o video_id

\* A file name that leaves the id out.
FilenameWithoutId(safe_title, video_id) == safe_title \o ExtMp4

\* filename, line 89.
Filename(safe_title, video_id) == Stem(safe_title, video_id) \o ExtMp4

(***************************************************************************)
(* get_file, line 160: the path traversal guard.                           *)
(***************************************************************************)
\* A guard that forgets the backslash.
PathTraversalNoBackslash(filename) ==
    \/ Contains(filename, <<".", ".">>)
    \/ Contains(filename, <<"/">>)

PathTraversal(filename) ==
    \/ Contains(filename, <<".", ".">>)
    \/ Contains(filename, <<"/">>)
    \/ Contains(filename, <<"\\">>)

(***************************************************************************)
(* The inputs the model draws from.                                        *)
(***************************************************************************)
\* Request bodies of POST /api/download.
Urls ==
    { <<>>,
      <<" ">>,
      <<"x">>,
      <<"f", "t", "p", ":", "/", "/", "x">>,
      <<"h", "t", "t", "p", ":", "x">>,
      <<"h", "t", "t", "p", ":", "/", "/", "/", "x">>,
      <<"/", "/", "x">>,
      <<"f", "t", "p", ":", "/", "/", "[", ":", ":", "1", "/", "v", "i", "d", "e", "o">>,
      <<"h", "t", "t", "p", ":", "/", "/", "[", "x">>,
      <<"h", "t", "t", "p", ":", "/", "/", ":", "8", "0", "/", "v">>,
      <<" ", "H", "T", "T", "P", "S", ":", "/", "/", "x", " ">> }

\* str(uuid.uuid4())[:8], line 83: eight hexadecimal digits.
UuidLen == 8
Uuids == { [i \in 1..UuidLen |-> "e"] }

\* The JSON objects of a successful probe: "title" and "id" may be absent.
ProbeObjects ==
    { [title |-> <<" ", "T", "/">>, id |-> <<"i">>],
      [title |-> <<" ", "T", "/">>, id |-> <<"a", ".", ".", "b">>],
      [title |-> <<"/">>, id |-> <<"i">>],
      [title |-> <<"T", "_", "i">>, id |-> <<"i">>],
      [title |-> <<"T">>, id |-> <<"i", "_", "i">>],
      [id |-> <<"i">>],
      [title |-> <<" ", "T", "/">>] }

\* What the probe (subprocess.run, lines 69-74, and json.loads, line 81)
\* comes back with.
ProbeResults ==
    {[kind |-> k, obj |-> <<>>] :
        k \in {"timeout", "nonzero", "badjson", "badtype"}}
        \cup {[kind |-> "ok", obj |-> o] : o \in ProbeObjects}

\* A name the tool may give its output when its own sanitiser disagrees
\* with safe_title.
DriftName == <<"d", ".", "m", "p", "4">>

SubDirName == <<"s", "u", "b">>
OldFileName == <<"o", "l", "d">>
OtherFileName == <<"x">>

\* A directory entry: its kind, its modification time, the download request
\* whose fetch wrote it (0: none), and whether unlink() fails on it (a file
\* the service may not remove).
File(m, w, l) == [kind |-> "file", mtime |-> m, writer |-> w, locked |-> l]
SubDir(m) == [kind |-> "dir", mtime |-> m, writer |-> 0, locked |-> FALSE]

\* One entry under its name, as a directory of its own.
Entry(name, e) == [n \in {name} |-> e]

\* The downloads directory at startup (line 29: kept when it exists), for
\* the download service: empty, or holding a subdirectory.
InitDirs == {<<>>, Entry(SubDirName, SubDir(1))}

\* The same for the file server and the cleanup alone: any of three files
\* and a subdirectory.
InitFileDirs ==
    LET opt(name, e) == {<<>>, Entry(name, e)}
    IN  {a @@ b @@ c @@ d :
            a \in opt(SubDirName, SubDir(1)),
            b \in opt(OldFileName, File(1, 0, FALSE)),
            c \in opt(OtherFileName, File(1, 0, TRUE)) \cup
                    {Entry(OtherFileName, File(1, 0, FALSE))},
            d \in opt(DriftName, File(1, 0, FALSE))}

\* Path segments of GET /api/file/{filename}.
GetNames ==
    { <<".", ".", "/", "x">>,
      <<"a", "/", "b">>,
      <<"a", "\\", "b">>,
      <<"a", ".", ".", "b">>,
      SubDirName, OldFileName, DriftName }

(***************************************************************************)
(* The state.                                                              *)
(***************************************************************************)
VARIABLES
    dir,      \* the downloads directory: entry name -> [kind, mtime, writer]
    busy,     \* the handler the event loop is running: "free", "download",
              \* "get" or "cleanup"
    cur,      \* the download request being handled (0: none)
    dl,       \* the download requests and the locals of their handler
    gf,       \* the locals of the get_file handler
    cl        \* the cleanup request and the locals of its handler

vars == <<dir, busy, cur, dl, gf, cl>>

Exists(name) == name \in DOMAIN dir

\* A download request nobody has sent yet, and one whose handler returned.
IdleDownload ==
    [pc |-> "idle", url |-> <<>>, calls |-> <<>>, probe |-> "none",
     fetch |-> "none", safe |-> <<>>, id |-> <<>>, status |-> 0,
     filename |-> <<>>, path |-> <<>>]

IdleGet == [pc |-> "idle", filename |-> <<>>, checked |-> {}, status |-> 0]

IdleCleanup ==
    [pc |-> "idle", todo |-> {}, before |-> <<>>, deleted |-> {}, status |-> 0]

Init ==
    /\ dir \in InitDirs
    /\ busy = "free"
    /\ cur = 0
    /\ dl = [d \in Downloads |-> IdleDownload]
    /\ gf = IdleGet
    /\ cl = [pending |-> FALSE] @@ IdleCleanup

(***************************************************************************)
(* POST /api/download                                                      *)
(***************************************************************************)
\* Requests are numbered in the order they arrive.
NextToArrive(d) ==
    /\ dl[d].pc = "idle"
    /\ \A e \in Downloads : e < d => dl[e].pc # "idle"

\* A request that arrived while a handler was running, and waits.
Waiting(d) == dl[d].pc = "pending"

NobodyWaits == ~cl.pending /\ \A d \in Downloads : ~Waiting(d)

\* A request arrives while the event loop runs a handler: it waits.
Submit(d) ==
    /\ busy # "free"
    /\ NextToArrive(d)
    /\ dl' = [dl EXCEPT ![d] = [@ EXCEPT !.pc = "pending"]]
    /\ UNCHANGED <<dir, busy, cur, gf, cl>>

\* The handlers without `except HTTPException: raise`: the handler's own
\* HTTPException falls to `except Exception`.
CatchWithoutReraise(exc) ==
    CASE exc.type = "TimeoutExpired" -> 408
      [] exc.type = "JSONDecodeError" -> 400
      [] OTHER -> 500

\* The exception handlers of lines 146-154, in their order: the status of
\* the response for an exception raised inside the try block.
Catch(exc) ==
    CASE exc.type = "TimeoutExpired" -> 408
      [] exc.type = "JSONDecodeError" -> 400
      [] exc.type = "HTTPException" -> exc.status
      [] OTHER -> 500

NoException == [type |-> "none", status |-> 0]

\* Lines 47-58: the free event loop calls the handler with the request's
\* body, for the waiting request that arrived first or, when nothing waits,
\* for a request that arrives now; the handler checks the URL, outside the
\* try.
Validate(d, u) ==
    /\ busy = "free"
    /\ \/ Waiting(d) /\ \A e \in Downloads : e < d => ~Waiting(e)
       \/ NextToArrive(d) /\ NobodyWaits
    /\ busy' = "download"
    /\ cur' = d
    /\ dl' = [dl EXCEPT ![d] =
            IF UrlRejected(u)
            THEN [@ EXCEPT !.url = u, !.pc = "responded", !.status = 400]
            ELSE IF UrlCrashes(u)
            THEN [@ EXCEPT !.url = u, !.pc = "responded", !.status = 500]
            ELSE [@ EXCEPT !.url = u, !.pc = "probe"]]
    /\ UNCHANGED <<dir, gf, cl>>

\* Lines 69-81: what the probe's result raises.
ProbeException(res) ==
    CASE res.kind = "timeout" -> [type |-> "TimeoutExpired", status |-> 0]
      [] res.kind = "nonzero" -> [type |-> "HTTPException", status |-> 400]
      [] res.kind = "badjson" -> [type |-> "JSONDecodeError", status |-> 0]
      [] res.kind = "badtype" -> [type |-> "AttributeError", status |-> 0]
      [] OTHER -> NoException

\* A probe whose failure does not end the request.
AfterProbeAlwaysFetch(res) == "fetch"

\* Where the handler goes after the probe: on to the fetch, or out.
AfterProbe(res) ==
    IF ProbeException(res) = NoException THEN "fetch" ELSE "responded"

\* video_info.get(key, default)
Get(obj, key, default) == IF key \in DOMAIN obj THEN obj[key] ELSE default

\* Lines 60-90: the probe and the expected file name.
Probe(d, res, uuid) ==
    /\ busy = "download" /\ cur = d
    /\ dl[d].pc = "probe"
    /\ LET title == Get(res.obj, "title", DefaultTitle)
           video_id == Get(res.obj, "id", uuid)
           ok == ProbeException(res) = NoException
       IN  dl' = [dl EXCEPT ![d] =
                [@ EXCEPT !.calls = Append(@, "probe"),
                          !.probe = res.kind,
                          !.pc = AfterProbe(res),
                          !.status = IF ok THEN 0 ELSE Catch(ProbeException(res)),
                          !.safe = IF ok THEN SafeTitle(title) ELSE <<>>,
                          !.id = IF ok THEN video_id ELSE <<>>,
                          !.filename =
                              IF ok THEN Filename(SafeTitle(title), video_id)
                              ELSE <<>>]]
    /\ UNCHANGED <<dir, busy, cur, gf, cl>>

\* Lines 108-118: what the fetch's result raises.
FetchException(kind) ==
    CASE kind = "timeout" -> [type |-> "TimeoutExpired", status |-> 0]
      [] kind = "nonzero" -> [type |-> "HTTPException", status |-> 500]
      [] OTHER -> NoException

\* What the tool leaves in the directory when it exits 0: nothing, or one
\* file, under the requested name, under it with another extension, or
\* under a name of its own; with a modification time of its choosing (the
\* tool may stamp the file with the medium's upload date).
ToolWrites(d) ==
    {<<>>} \cup
    {Entry(name, File(m, d, FALSE)) :
        name \in {nm \in {dl[d].filename,
                          Stem(dl[d].safe, dl[d].id) \o ExtMkv,
                          DriftName} :
                    ~(Exists(nm) /\ dir[nm].kind = "dir")},
        m \in Mtimes}

\* Lines 92-118: the fetch, writing to output_path.
Fetch(d, kind, written) ==
    /\ busy = "download" /\ cur = d
    /\ dl[d].pc = "fetch"
    /\ written \in ToolWrites(d)
    /\ kind # "ok" => written = <<>>
    /\ dir' = written @@ dir
    /\ dl' = [dl EXCEPT ![d] =
            [@ EXCEPT !.calls = Append(@, "fetch"),
                      !.fetch = kind,
                      !.path = dl[d].filename,
                      !.pc = IF kind = "ok" THEN "resolve" ELSE "responded",
                      !.status = IF kind = "ok" THEN 0
                                 ELSE Catch(FetchException(kind))]]
    /\ UNCHANGED <<busy, cur, gf, cl>>

\* The names of d whose modification time no other name of d exceeds.
Newest(names) ==
    {n \in names : \A m \in names : dir[m].mtime <= dir[n].mtime}

\* A resolver that trusts the exit code and never looks.
LocatedWithoutLooking(safe_title, video_id) == {Filename(safe_title, video_id)}

\* Lines 120-136: the names the resolver may return; none when it raises
\* "download finished but no file found".  glob() lists in no fixed order,
\* so matches[0] is any match and max() any of the newest.
Located(safe_title, video_id) ==
    LET expected == Filename(safe_title, video_id)
        pattern  == Stem(safe_title, video_id) \o <<".">>
        matches  == {n \in DOMAIN dir : StartsWith(n, pattern)}
        all_files == DOMAIN dir
    IN  IF Exists(expected) THEN {expected}
        ELSE IF matches # {} THEN matches
        ELSE Newest(all_files)

\* Lines 120-144: the resolver and the response.
Resolve(d) ==
    /\ busy = "download" /\ cur = d
    /\ dl[d].pc = "resolve"
    /\ LET found == Located(dl[d].safe, dl[d].id)
       IN  IF found = {}
           THEN dl' = [dl EXCEPT ![d] =
                    [@ EXCEPT !.pc = "responded",
                              !.status = Catch([type |-> "HTTPException",
                                                status |-> 500])]]
           ELSE \E name \in found :
                    dl' = [dl EXCEPT ![d] =
                        [@ EXCEPT !.pc = "responded", !.status = 200,
                                  !.filename = name]]
    /\ UNCHANGED <<dir, busy, cur, gf, cl>>

\* The handler returns (or its exception leaves it): its locals are gone
\* and the event loop is free.  When another download request waits, the
\* loop may run that one before the response has reached the client: the
\* request stays in flight, and what the model keeps of it is the path its
\* fetch was given.  Otherwise the response is delivered at once.
Finish(d) ==
    /\ busy = "download" /\ cur = d
    /\ dl[d].pc = "responded"
    /\ dl' = [dl EXCEPT ![d] =
            IF \E e \in Downloads : Waiting(e)
            THEN [IdleDownload EXCEPT !.pc = "returned", !.safe = dl[d].safe,
                                      !.id = dl[d].id, !.path = dl[d].path]
            ELSE [IdleDownload EXCEPT !.pc = "done"]]
    /\ busy' = "free"
    /\ cur' = 0
    /\ UNCHANGED <<dir, gf, cl>>

\* The client has the response: the request is over.
Deliver(d) ==
    /\ dl[d].pc = "returned"
    /\ dl' = [dl EXCEPT ![d] = [IdleDownload EXCEPT !.pc = "done"]]
    /\ UNCHANGED <<dir, busy, cur, gf, cl>>

(***************************************************************************)
(* GET /api/file/{filename}                                                *)
(***************************************************************************)
\* Lines 157-161: the guard, before any filesystem call.
GetStart(fn) ==
    /\ busy = "free"
    /\ NobodyWaits
    /\ gf.pc = "idle"
    /\ busy' = "get"
    /\ gf' = IF PathTraversal(fn)
             THEN [gf EXCEPT !.pc = "responded", !.filename = fn, !.status = 400]
             ELSE [gf EXCEPT !.pc = "exists", !.filename = fn]
    /\ UNCHANGED <<dir, cur, dl, cl>>

\* Lines 163-182: file_path.exists(), then FileResponse, which answers a
\* path that is no regular file with an error.
GetExists ==
    /\ busy = "get"
    /\ gf.pc = "exists"
    /\ gf' = [gf EXCEPT !.pc = "responded",
                        !.checked = @ \cup {gf.filename},
                        !.status = IF ~Exists(gf.filename) THEN 404
                                   ELSE IF dir[gf.filename].kind = "file" THEN 200
                                   ELSE 500]
    /\ UNCHANGED <<dir, busy, cur, dl, cl>>

GetFinish ==
    /\ busy = "get"
    /\ gf.pc = "responded"
    /\ gf' = IdleGet
    /\ busy' = "free"
    /\ UNCHANGED <<dir, cur, dl, cl>>

(***************************************************************************)
(* DELETE /api/cleanup                                                     *)
(***************************************************************************)
\* A cleanup request arrives while the event loop runs a handler: it waits.
CleanupArrive ==
    /\ busy # "free"
    /\ ~cl.pending
    /\ cl.pc = "idle"
    /\ cl' = [cl EXCEPT !.pending = TRUE]
    /\ UNCHANGED <<dir, busy, cur, dl, gf>>

\* Line 230: the free event loop calls the handler, for the waiting request
\* or, when nothing waits, for one that arrives now; DOWNLOAD_DIR.iterdir()
\* lists the directory.
CleanupStart ==
    /\ busy = "free"
    /\ cl.pending \/ NobodyWaits
    /\ busy' = "cleanup"
    /\ cl' = [cl EXCEPT !.pending = FALSE, !.pc = "loop",
                        !.todo = DOMAIN dir, !.before = dir]
    /\ UNCHANGED <<dir, cur, dl, gf>>

\* A loop without the is_file() test.
IsFileAlways(name) == TRUE

\* file.is_file(), line 231.
IsFile(name) == dir[name].kind = "file"

\* Lines 230-235: one turn of the loop, on any entry not yet visited (the
\* listing has no fixed order).  When unlink() fails the handler answers
\* 500 and visits nothing more.
CleanupStep(name) ==
    /\ busy = "cleanup"
    /\ cl.pc = "loop"
    /\ name \in cl.todo
    /\ IF IsFile(name)
       THEN IF ~dir[name].locked
            THEN /\ dir' = [n \in DOMAIN dir \ {name} |-> dir[n]]
                 /\ cl' = [cl EXCEPT !.todo = @ \ {name},
                                     !.deleted = @ \cup {name}]
            ELSE /\ dir' = dir
                 /\ cl' = [cl EXCEPT !.pc = "responded", !.status = 500]
       ELSE /\ dir' = dir
            /\ cl' = [cl EXCEPT !.todo = @ \ {name}]
    /\ UNCHANGED <<busy, cur, dl, gf>>

\* Line 233: the loop is over.
CleanupReturn ==
    /\ busy = "cleanup"
    /\ cl.pc = "loop"
    /\ cl.todo = {}
    /\ cl' = [cl EXCEPT !.pc = "responded", !.status = 200]
    /\ UNCHANGED <<dir, busy, cur, dl, gf>>

CleanupFinish ==
    /\ busy = "cleanup"
    /\ cl.pc = "responded"
    /\ cl' = [pending |-> cl.pending] @@ IdleCleanup
    /\ busy' = "free"
    /\ UNCHANGED <<dir, cur, dl, gf>>

(***************************************************************************)
(* The specifications.                                                     *)
(***************************************************************************)
DownloadNext ==
    \/ \E d \in Downloads : Submit(d)
    \/ \E d \in Downloads, u \in Urls : Validate(d, u)
    \/ \E d \in Downloads, res \in ProbeResults, uuid \in Uuids : Probe(d, res, uuid)
    \/ \E d \in Downloads, kind \in {"timeout", "nonzero", "ok"} :
            \E written \in ToolWrites(d) : Fetch(d, kind, written)
    \/ \E d \in Downloads : Resolve(d)
    \/ \E d \in Downloads : Finish(d)
    \/ \E d \in Downloads : Deliver(d)

GetNext ==
    \/ \E fn \in GetNames : GetStart(fn)
    \/ GetExists
    \/ GetFinish

CleanupNext ==
    \/ CleanupArrive
    \/ CleanupStart
    \/ \E name \in DOMAIN dir : CleanupStep(name)
    \/ CleanupReturn
    \/ CleanupFinish

\* The download service and the cleanup, from startup.
Next == DownloadNext \/ CleanupNext

Spec == Init /\ [][Next]_vars

\* The file server and the cleanup, over a directory earlier downloads left.
FileInit ==
    /\ dir \in InitFileDirs
    /\ busy = "free"
    /\ cur = 0
    /\ dl = [d \in Downloads |-> IdleDownload]
    /\ gf = IdleGet
    /\ cl = [pending |-> FALSE] @@ IdleCleanup

FileNext == GetNext \/ CleanupNext

FileSpec == FileInit /\ [][FileNext]_vars

(***************************************************************************)
(* The claims.                                                             *)
(***************************************************************************)
InFlight(d) == dl[d].pc \notin {"idle", "done"}

\* The handler of d has been called and has not returned.
Running(d) == dl[d].pc \in {"probe", "fetch", "resolve", "responded"}

Responded(d) == dl[d].pc = "responded"

Succeeded(d) == Responded(d) /\ dl[d].status = 200

\* An invalid URL as the specification has it: empty once trimmed, a scheme
\* other than http and https, or an empty host.
InvalidUrl(raw) ==
    \/ Strip(raw) = <<>>
    \/ UrlScheme(Strip(raw)) \notin {SchemeHttp, SchemeHttps}
    \/ UrlHost(Strip(raw)) = <<>>

\* C1: a download request whose URL is empty after trimming, or whose scheme
\* is not http or https, or whose host is empty, is answered 400 and never
\* invokes the tool, neither for the probe nor for the fetch.
C1Claim ==
    \A d \in Downloads :
        Running(d) /\ InvalidUrl(dl[d].url) =>
            /\ Responded(d)
            /\ dl[d].status = 400
            /\ dl[d].calls = <<>>

\* C2: within one download request the tool is invoked at most twice, a probe
\* and then a fetch; the fetch is invoked only after the probe of the same
\* request exited 0 with parseable JSON; after a probe that exits non-zero,
\* prints malformed JSON or times out there is no fetch; no probe and no fetch
\* is invoked a second time.
C2Theorem ==
    \A d \in Downloads :
        /\ dl[d].calls \in {<<>>, <<"probe">>, <<"probe", "fetch">>}
        /\ dl[d].pc = "probe" => dl[d].calls = <<>>
        /\ dl[d].pc = "fetch" => dl[d].calls = <<"probe">>
        /\ Len(dl[d].calls) = 2 => dl[d].probe = "ok"
        /\ dl[d].probe \in {"nonzero", "badjson", "timeout"} =>
                Responded(d) /\ dl[d].calls = <<"probe">>
        /\ dl[d].fetch \in {"nonzero", "timeout"} =>
                Responded(d) /\ dl[d].calls = <<"probe", "fetch">>

\* C2's case: a request answered after a failed probe, with one invocation.
C2Witness ==
    \E d \in Downloads :
        /\ Responded(d)
        /\ dl[d].probe = "nonzero"
        /\ dl[d].calls = <<"probe">>

RegularFiles == {n \in DOMAIN dir : dir[n].kind = "file"}

\* C4: after a fetch that exited 0 the artifact is found by an ordered
\* fallback, whatever the directory holds: the exact expected path when it
\* exists; otherwise an entry matching safeTitle_id.*; otherwise the most
\* recently modified file of the directory; and when there is no file the
\* request fails with 500.
C4Claim ==
    \A d \in Downloads :
        Responded(d) /\ dl[d].fetch = "ok" =>
            LET r == dl[d]
                expected == r.safe \o <<"_">> \o r.id \o ExtMp4
                matches == {n \in DOMAIN dir :
                                StartsWith(n, r.safe \o <<"_">> \o r.id \o <<".">>)}
                newest == {n \in RegularFiles :
                                \A m \in RegularFiles : dir[m].mtime <= dir[n].mtime}
            IN  IF expected \in DOMAIN dir
                THEN r.status = 200 /\ r.filename = expected
                ELSE IF matches # {}
                THEN r.status = 200 /\ r.filename \in matches
                ELSE IF RegularFiles # {}
                THEN r.status = 200 /\ r.filename \in newest
                ELSE r.status = 500

\* The file names the claims call unsafe.
Unsafe(fn) ==
    \/ \E i \in 1..(Len(fn) - 1) : fn[i] = "." /\ fn[i + 1] = "."
    \/ HasChar(fn, "/")
    \/ HasChar(fn, "\\")

\* C5: a GET whose filename contains '..', '/' or '\' is answered 400 without
\* any filesystem access, and no path outside the downloads directory is
\* ever checked or served.
C5Theorem ==
    /\ gf.pc # "idle" /\ Unsafe(gf.filename) =>
            /\ gf.pc = "responded"
            /\ gf.status = 400
            /\ gf.checked = {}
    /\ \A n \in gf.checked : ~HasChar(n, "/") /\ ~HasChar(n, "\\") /\ n # <<".", ".">>
    /\ gf.status = 200 => gf.filename \in DOMAIN dir /\ ~Unsafe(gf.filename)

\* C5's case: the GET of "../x", answered 400.
C5Witness ==
    /\ gf.pc = "responded"
    /\ gf.filename = <<".", ".", "/", "x">>
    /\ gf.status = 400

\* C6: a cleanup that meets no deletion error removes exactly the regular
\* files directly in the downloads directory and leaves every subdirectory
\* as it was; when a deletion fails the answer is 500 and the files deleted
\* before the failure stay deleted.
C6Theorem ==
    cl.pc = "responded" =>
        LET files == {n \in DOMAIN cl.before : cl.before[n].kind = "file"}
        IN  /\ cl.status \in {200, 500}
            /\ \A n \in DOMAIN cl.before \ files :
                    n \in DOMAIN dir /\ dir[n] = cl.before[n]
            /\ cl.status = 200 => DOMAIN dir = DOMAIN cl.before \ files
            /\ cl.status = 500 =>
                    /\ cl.deleted \subseteq files
                    /\ cl.deleted # files
                    /\ DOMAIN dir = DOMAIN cl.before \ cl.deleted

\* C6's case: a cleanup of three files and a subdirectory, answered with
\* success.
C6Witness ==
    /\ cl.pc = "responded"
    /\ cl.status = 200
    /\ Cardinality({n \in DOMAIN cl.before : cl.before[n].kind = "file"}) = 3
    /\ SubDirName \in DOMAIN cl.before

\* Two different requests, both in flight, each with a fetch invoked.
BothFetched(d1, d2) ==
    /\ d1 # d2
    /\ InFlight(d1) /\ InFlight(d2)
    /\ dl[d1].path # <<>> /\ dl[d2].path # <<>>

\* C7: any two download requests in flight at the same time pass different
\* output paths to their fetch invocations.
C7Claim ==
    \A d1, d2 \in Downloads :
        BothFetched(d1, d2) => dl[d1].path # dl[d2].path

\* C7, amended: two download requests in flight at the same time whose probes
\* gave the same sanitised title pass the same output path to their fetch
\* invocations exactly when the probes reported the same id.
C7Amended ==
    \A d1, d2 \in Downloads :
        BothFetched(d1, d2) /\ dl[d1].safe = dl[d2].safe =>
            (dl[d1].path = dl[d2].path <=> dl[d1].id = dl[d2].id)

\* C7's case: two requests in flight, same title, different ids.
C7Witness ==
    \E d1, d2 \in Downloads :
        /\ BothFetched(d1, d2)
        /\ dl[d1].safe = dl[d2].safe
        /\ dl[d1].id # dl[d2].id

\* C8: a download request that answers with success names an artifact that
\* its own fetch wrote, never one that the fetch of another request wrote.
C8Claim ==
    \A d \in Downloads :
        Succeeded(d) /\ dl[d].filename \in DOMAIN dir =>
            dir[dl[d].filename].writer \notin Downloads \ {d}

\* C9: the filename of every successful download response, whatever title
\* and id the probe reported, passes the file server's guard: it contains
\* none of '..', '/' and '\', so that a GET of the downloadUrl is not
\* answered 400.
C9Claim ==
    \A d \in Downloads : Succeeded(d) => ~PathTraversal(dl[d].filename)

=============================================================================
